---- MODULE Spec2Model ----
(***************************************************************************)
(* HuggingfaceCausalLM (src/lm_eval/models/huggingface.py): the batch      *)
(* scheduling, truncation/padding and log-likelihood extraction of         *)
(* loglikelihood, loglikelihood_rolling and greedy_until.                  *)
(*                                                                         *)
(* Python strings are sequences of one-character strings, token lists are  *)
(* sequences of token ids (0-based ids, as in the tokenizer), Python       *)
(* sequences are 1-based TLA+ sequences.  The helpers of lm_eval.utils     *)
(* (Reorderer, chunks, get_rolling_token_windows, make_disjoint_window)    *)
(* are not part of the source file and are modelled from spec.md.          *)
(***************************************************************************)
EXTENDS Integers, Sequences, FiniteSets, TLC

VARIABLES
    mode,            \* which public entry point was called
    max_length,      \* self.max_length (a property of the loaded model)
    batch_size,      \* self.batch_size
    backend,         \* which deterministic fake backend is loaded
    requests,        \* the caller's request list
    resps,           \* the caller's response slots: <<>> = never written
    pc,              \* position of the call
    err,             \* the exception that ended the call, "none" otherwise
    new_reqs,        \* the argument of _loglikelihood_tokens
    re_ord,          \* Reorderer state: original indices in sorted order
    done,            \* number of reordered items already consumed by chunks
    chunk,           \* the current chunk (items of new_reqs)
    inps,            \* padded rows of the current batch
    inplens,         \* true input length per row
    cont_toks_list,  \* continuation tokens per row
    padding_length,  \* <<>> = None, else <<n>>
    read_pos,        \* per row: the 0-based positions read by the logits slice
    res,             \* answers in processing order
    ret,             \* the value returned by the last inner call
    pad_hist,        \* padding_length of every batch built so far
    doc,             \* loglikelihood_rolling: index of the current document
    loglikelihoods,  \* loglikelihood_rolling: per-document sums
    gen_log          \* greedy_until: one record per completed loop iteration

vars == <<mode, max_length, batch_size, backend, requests, resps, pc, err,
          new_reqs, re_ord, done, chunk, inps, inplens, cont_toks_list,
          padding_length, read_pos, res, ret, pad_hist, doc, loglikelihoods,
          gen_log>>

----------------------------------------------------------------------------
(* Bounds of the model *)

MaxReqs == 2
MaxCtxLen == 2
MaxContLen == 2
MaxW == 2
MaxBatch == 2
MaxDocLen == 4

(* Program constants *)

max_gen_toks == 256

----------------------------------------------------------------------------
(* Generic helpers *)

Min(a, b) == IF a < b THEN a ELSE b
Max(a, b) == IF a > b THEN a ELSE b

RECURSIVE SumSeq(_)
SumSeq(s) == IF s = <<>> THEN 0 ELSE s[1] + SumSeq(Tail(s))

RECURSIVE Concat(_)
Concat(ss) == IF ss = <<>> THEN <<>> ELSE ss[1] \o Concat(Tail(ss))

IsPrefix(p, s) == Len(p) <= Len(s) /\ SubSeq(s, 1, Len(p)) = p
IsSuffix(p, s) == Len(p) <= Len(s) /\ SubSeq(s, Len(s) - Len(p) + 1, Len(s)) = p

SeqsUpTo(S, n) == UNION {[1..k -> S] : k \in 0..n}

(* Python slicing s[start:stop], s[start:], s[:stop] with negative indices *)
ClampIdx(i, n) ==
    IF i < 0 THEN (IF i + n < 0 THEN 0 ELSE i + n)
             ELSE (IF i > n THEN n ELSE i)

PySlice(s, start, stop) ==
    SubSeq(s, ClampIdx(start, Len(s)) + 1, ClampIdx(stop, Len(s)))
PySliceFrom(s, start) == SubSeq(s, ClampIdx(start, Len(s)) + 1, Len(s))
PySliceTo(s, stop) == SubSeq(s, 1, ClampIdx(stop, Len(s)))

----------------------------------------------------------------------------
(* The tokenizer: a deterministic longest-match tokenizer over a fixed     *)
(* vocabulary.  Token id = position in Vocab - 1; id 0 is end-of-text.     *)

Vocab ==
    << <<"$">>,
       <<"a">>, <<"b">>, <<"c">>, <<"d">>, <<"e">>, <<"f">>, <<"g">>,
       <<"h">>, <<"i">>,
       <<"<">>, <<">">>, <<"S">>, <<"T">>, <<"O">>, <<"P">>, <<"1">>, <<"2">>,
       <<"<", "S", "T", "O", "P", "1", ">">>,
       <<"<", "S", "T", "O", "P", "2", ">">> >>


vocab_size == Len(Vocab)
eot_token_id == 0
TokenIds == 0..(vocab_size - 1)

RECURSIVE tok_encode(_)
tok_encode(string) ==
    IF string = <<>> THEN <<>>
    ELSE LET cands == {t \in 1..vocab_size :
                          Vocab[t][1] = string[1] /\ IsPrefix(Vocab[t], string)}
             best == CHOOSE t \in cands :
                        \A u \in cands : Len(Vocab[u]) <= Len(Vocab[t])
         IN  <<best - 1>> \o
             tok_encode(SubSeq(string, Len(Vocab[best]) + 1, Len(string)))

tok_decode(tokens) == Concat([k \in 1..Len(tokens) |-> Vocab[tokens[k] + 1]])

----------------------------------------------------------------------------
(* The model backend: F.log_softmax(self._model_call(inps)) as a           *)
(* deterministic causal table of integer (fixed-point) log-probabilities.  *)
(* The distribution at a position depends on the row up to that position.  *)

Backends == {0, 1}

RECURSIVE Hash(_)
Hash(toks) ==
    IF toks = <<>> THEN 0
    ELSE toks[Len(toks)] + 1 + 3 * Hash(SubSeq(toks, 1, Len(toks) - 1))

Favoured(b, prefix) == IF (b + Hash(prefix)) % 3 = 0 THEN 1 ELSE 2

Dist(b, prefix) ==
    [v \in TokenIds |->
        0 - (1 + ((v + vocab_size - Favoured(b, prefix)) % vocab_size))]

_model_call(b, row) == [p \in 1..Len(row) |-> Dist(b, SubSeq(row, 1, p))]

ArgMax(d) == CHOOSE v \in DOMAIN d : \A u \in DOMAIN d : d[u] <= d[v]

----------------------------------------------------------------------------
(* utils.Reorderer and utils.chunks *)

RECURSIVE SeqLess(_, _)
SeqLess(s, t) ==
    IF s = <<>> THEN t # <<>>
    ELSE IF t = <<>> THEN FALSE
    ELSE IF s[1] # t[1] THEN s[1] < t[1]
    ELSE SeqLess(Tail(s), Tail(t))

\* Python comparison of the key tuples (int, sequence)
KeyLess(k1, k2) ==
    k1[1] < k2[1] \/ (k1[1] = k2[1] /\ SeqLess(k1[2], k2[2]))

\* the permutation kept by a Reorderer: the original indices sorted by the
\* items' keys (keys[i] = fn(arr[i])), ties by original index
Reorderer(keys) ==
    LET n == Len(keys)
        ks == <<>> \o keys
        Before(i, j) ==
            KeyLess(ks[i], ks[j]) \/ (~KeyLess(ks[j], ks[i]) /\ i < j)
        rank == [i \in 1..n |-> Cardinality({j \in 1..n : Before(j, i)})]
        byRank == {<<rank[i], i>> : i \in 1..n}
    IN  [p \in 1..n |-> CHOOSE i \in 1..n : <<p - 1, i>> \in byRank]

get_reordered(arr, perm) == [p \in 1..Len(perm) |-> arr[perm[p]]]

get_original(perm, newarr) ==
    [i \in 1..Len(perm) |-> newarr[CHOOSE p \in 1..Len(perm) : perm[p] = i]]

\* the chunk of size at most n that starts after `consumed` items
chunks(seq, consumed, n) == SubSeq(seq, consumed + 1, Min(consumed + n, Len(seq)))

----------------------------------------------------------------------------
(* _loglikelihood_tokens *)

\* _collate without the negative sign: ascending length
_collate_ascending(x) ==
    LET toks == x.context_enc \o x.continuation_enc
    IN  <<Len(toks), toks>>

\* _collate: the key (-len(toks), tuple(toks))
_collate(x) ==
    LET toks == x.context_enc \o x.continuation_enc
    IN  <<0 - Len(toks), toks>>

\* the truncation with the window one token short: [-self.max_length:][:-1]
EncodeInp_short_window(context_enc, continuation_enc) ==
    PySliceTo(PySliceFrom(context_enc \o continuation_enc, 0 - max_length),
              0 - 1)

\* (context_enc + continuation_enc)[-(self.max_length + 1):][:-1]
EncodeInp(context_enc, continuation_enc) ==
    PySliceTo(PySliceFrom(context_enc \o continuation_enc, 0 - (max_length + 1)),
              0 - 1)

EmptyBatch ==
    [inps |-> <<>>, cont_toks_list |-> <<>>, inplens |-> <<>>,
     padding_length |-> <<>>, err |-> "none"]

\* the sanity checks with the two continuation checks left out
RowAsserts_context_only(row) == Len(row.context_enc) > 0

\* the sanity checks at the head of the row loop
RowAsserts(row) ==
    /\ Len(row.context_enc) > 0
    /\ Len(row.continuation_enc) > 0
    /\ Len(row.continuation_enc) <= max_length

\* the row loop: rows k.. of chunk c appended to the batch st
RECURSIVE BuildRows(_, _, _)
BuildRows(c, k, st) ==
    IF k > Len(c) \/ st.err # "none" THEN st
    ELSE IF ~RowAsserts(c[k]) THEN [st EXCEPT !.err = "AssertionError"]
    ELSE LET inp == EncodeInp(c[k].context_enc, c[k].continuation_enc)
             inplen == Len(inp)
             pl == IF st.padding_length # <<>> THEN st.padding_length[1]
                   ELSE inplen
         IN  IF pl - inplen < 0
             THEN \* torch.zeros of a negative size raises
                  [st EXCEPT !.err = "RuntimeError_pad", !.padding_length = <<pl>>]
             ELSE BuildRows(c, k + 1,
                     [inps |-> Append(st.inps, inp \o [z \in 1..(pl - inplen) |-> 0]),
                      cont_toks_list |-> Append(st.cont_toks_list, c[k].continuation_enc),
                      inplens |-> Append(st.inplens, inplen),
                      padding_length |-> <<pl>>,
                      err |-> "none"])

\* logits[inplen - contlen : inplen] as the 0-based positions it reads
SlicePositions(width, inplen, contlen) ==
    LET lo == ClampIdx(inplen - contlen, width)
        hi == ClampIdx(inplen, width)
    IN  [k \in 1..(IF hi > lo THEN hi - lo ELSE 0) |-> lo + k - 1]

\* whether the comparison with cont_toks broadcasts and torch.gather accepts
\* the index, for a slice of k positions and c continuation tokens
ShapesOK(k, c) == (k = c \/ k = 1 \/ c = 1) /\ c <= k

\* the answer with the mean of the gathered log-probabilities
Answer_mean(logits, positions, cont_toks) ==
    LET c == Len(cont_toks)
        total == SumSeq([j \in 1..c |-> logits[positions[j] + 1][cont_toks[j]]])
    IN  [lp |-> IF c = 0 THEN 0 ELSE 0 - ((0 - total) \div c),
         greedy |-> \A j \in 1..c :
                        ArgMax(logits[positions[j] + 1]) = cont_toks[j]]

\* the answer of one row: (float(logits.sum()), bool(max_equal))
Answer(logits, positions, cont_toks) ==
    LET k == Len(positions)
        c == Len(cont_toks)
        n == Max(k, c)
        At(j) == logits[positions[IF k = 1 THEN 1 ELSE j] + 1]
        Tok(j) == cont_toks[IF c = 1 THEN 1 ELSE j]
    IN  [lp |-> SumSeq([j \in 1..c |-> logits[positions[j] + 1][cont_toks[j]]]),
         greedy |-> \A j \in 1..(IF k = 0 \/ c = 0 THEN 0 ELSE n) :
                        ArgMax(At(j)) = Tok(j)]

\* the slice taken relative to the padded width instead of inplen
RowPositions_padded(r) ==
    SlicePositions(Len(inps[r]), Len(inps[r]), Len(cont_toks_list[r]))

RowPositions(r) ==
    SlicePositions(Len(inps[r]), inplens[r], Len(cont_toks_list[r]))

Reorder ==
    /\ pc = "collate"
    /\ re_ord' = Reorderer([i \in 1..Len(new_reqs) |-> _collate(new_reqs[i])])
    /\ done' = 0
    /\ res' = <<>>
    /\ pad_hist' = <<>>
    /\ pc' = "chunk"
    /\ UNCHANGED <<mode, max_length, batch_size, backend, requests, resps, err,
                   new_reqs, chunk, inps, inplens, cont_toks_list,
                   padding_length, read_pos, ret, doc, loglikelihoods,
                   gen_log>>

BuildBatch ==
    /\ pc = "chunk"
    /\ done < Len(re_ord)
    /\ \E c \in {chunks(get_reordered(new_reqs, re_ord), done, batch_size)} :
       \E st \in {BuildRows(c, 1, EmptyBatch)} :
           /\ chunk' = c
           /\ inps' = st.inps
           /\ inplens' = st.inplens
           /\ cont_toks_list' = st.cont_toks_list
           /\ padding_length' = st.padding_length
           /\ err' = st.err
           /\ pc' = IF st.err = "none" THEN "extract" ELSE "aborted"
           /\ pad_hist' = IF st.err = "none"
                          THEN Append(pad_hist, st.padding_length[1])
                          ELSE pad_hist
    /\ read_pos' = <<>>
    /\ UNCHANGED <<mode, max_length, batch_size, backend, requests, resps,
                   new_reqs, re_ord, done, res, ret, doc, loglikelihoods,
                   gen_log>>

\* the number of leading rows whose shapes pass: rows are extracted in order
\* and the first bad row ends the call
RECURSIVE GoodRows(_, _)
GoodRows(pos, r) ==
    IF r > Len(pos) \/ ~ShapesOK(Len(pos[r]), Len(cont_toks_list[r])) THEN r - 1
    ELSE GoodRows(pos, r + 1)

ExtractBatch ==
    /\ pc = "extract"
    /\ \E pos \in {<<>> \o [r \in 1..Len(chunk) |-> RowPositions(r)]} :
       \E upto \in {GoodRows(pos, 1)} :
           /\ read_pos' = pos
           /\ res' = res \o [r \in 1..upto |->
                                Answer(_model_call(backend, inps[r]), pos[r],
                                       cont_toks_list[r])]
           /\ err' = IF upto = Len(chunk) THEN "none" ELSE "RuntimeError_shape"
           /\ pc' = IF upto = Len(chunk) THEN "chunk" ELSE "aborted"
           /\ done' = IF upto = Len(chunk) THEN done + Len(chunk) ELSE done
    /\ UNCHANGED <<mode, max_length, batch_size, backend, requests, resps,
                   new_reqs, re_ord, chunk, inps, inplens, cont_toks_list,
                   padding_length, ret, pad_hist, doc, loglikelihoods, gen_log>>

\* return res: the answers in processing order, not restored
ReturnOriginal_unrestored ==
    /\ pc = "chunk"
    /\ done = Len(re_ord)
    /\ ret' = res
    /\ pc' = IF mode = "loglikelihood" THEN "writeback" ELSE "sum"
    /\ UNCHANGED <<mode, max_length, batch_size, backend, requests, resps, err,
                   new_reqs, re_ord, done, chunk, inps, inplens,
                   cont_toks_list, padding_length, read_pos, res, pad_hist,
                   doc, loglikelihoods, gen_log>>

ReturnOriginal ==
    /\ pc = "chunk"
    /\ done = Len(re_ord)
    /\ ret' = get_original(re_ord, res)
    /\ pc' = IF mode = "loglikelihood" THEN "writeback" ELSE "sum"
    /\ UNCHANGED <<mode, max_length, batch_size, backend, requests, resps, err,
                   new_reqs, re_ord, done, chunk, inps, inplens,
                   cont_toks_list, padding_length, read_pos, res, pad_hist,
                   doc, loglikelihoods, gen_log>>

----------------------------------------------------------------------------
(* loglikelihood *)

\* one element of new_reqs
EncodeRequest(req) ==
    [key |-> <<req.context, req.continuation>>,
     context_enc |-> IF req.context = <<>> THEN <<eot_token_id>>
                     ELSE tok_encode(req.context),
     continuation_enc |-> tok_encode(req.continuation)]

LoglikelihoodEncode ==
    /\ pc = "start"
    /\ mode = "loglikelihood"
    /\ new_reqs' = [i \in 1..Len(requests) |-> EncodeRequest(requests[i])]
    /\ pc' = "collate"
    /\ UNCHANGED <<mode, max_length, batch_size, backend, requests, resps, err,
                   re_ord, done, chunk, inps, inplens, cont_toks_list,
                   padding_length, read_pos, res, ret, pad_hist, doc,
                   loglikelihoods, gen_log>>

\* for req, resp in zip(requests, resps): req.resps = resp
LoglikelihoodWriteBack ==
    /\ pc = "writeback"
    /\ resps' = [i \in 1..Len(requests) |->
                    IF i <= Len(ret) THEN <<ret[i]>> ELSE resps[i]]
    /\ pc' = "done"
    /\ UNCHANGED <<mode, max_length, batch_size, backend, requests, err,
                   new_reqs, re_ord, done, chunk, inps, inplens,
                   cont_toks_list, padding_length, read_pos, res, ret,
                   pad_hist, doc, loglikelihoods, gen_log>>

----------------------------------------------------------------------------
(* Inputs *)

CtxChar(i) == IF i % 3 = 1 THEN "a" ELSE "b"
ContChar(i) == IF i % 3 = 0 THEN "a" ELSE "b"

\* contexts "", "a", "ab", "abb", ...; continuations "", "b", "bb", "bba", ...
Contexts == {[i \in 1..n |-> CtxChar(i)] : n \in 0..MaxCtxLen}
Continuations == {[i \in 1..n |-> ContChar(i)] : n \in 0..MaxContLen}

LikelihoodRequests == [context : Contexts, continuation : Continuations]

InitCommon ==
    /\ backend \in Backends
    /\ pc = "start"
    /\ err = "none"
    /\ new_reqs = <<>>
    /\ re_ord = <<>>
    /\ done = 0
    /\ chunk = <<>>
    /\ inps = <<>>
    /\ inplens = <<>>
    /\ cont_toks_list = <<>>
    /\ padding_length = <<>>
    /\ read_pos = <<>>
    /\ res = <<>>
    /\ ret = <<>>
    /\ pad_hist = <<>>
    /\ doc = 1
    /\ loglikelihoods = <<>>
    /\ gen_log = <<>>

InitLL ==
    /\ mode = "loglikelihood"
    /\ max_length \in 1..MaxW
    /\ batch_size \in 1..MaxBatch
    /\ requests \in SeqsUpTo(LikelihoodRequests, MaxReqs)
    /\ resps = [i \in 1..Len(requests) |-> <<>>]
    /\ InitCommon

NextLL ==
    \/ LoglikelihoodEncode
    \/ Reorder
    \/ BuildBatch
    \/ ExtractBatch
    \/ ReturnOriginal
    \/ LoglikelihoodWriteBack

SpecLL == InitLL /\ [][NextLL]_vars

----------------------------------------------------------------------------
(* utils.get_rolling_token_windows and utils.make_disjoint_window *)

\* the windows after the first one, `predicted` tokens being covered already
RECURSIVE RollingRest(_, _, _, _)
RollingRest(token_list, predicted, max_seq_len, pred_len) ==
    IF predicted >= Len(token_list) THEN <<>>
    ELSE LET window_pred_len == Min(Len(token_list) - predicted, pred_len)
             window_end == predicted + window_pred_len
         IN  << <<PySlice(token_list, window_end - max_seq_len - 1, window_end - 1),
                  PySlice(token_list, window_end - window_pred_len, window_end)>> >>
             \o RollingRest(token_list, window_end, max_seq_len, pred_len)

\* the (input tokens, predicted tokens) windows of a token list
get_rolling_token_windows(token_list, prefix_token, max_seq_len, context_len) ==
    IF token_list = <<>> THEN <<>>
    ELSE LET pred_len == max_seq_len - context_len + 1
             first_seq_len == Min(max_seq_len, Len(token_list))
         IN  << << <<prefix_token>> \o PySliceTo(token_list, first_seq_len - 1),
                   PySliceTo(token_list, first_seq_len)>> >>
             \o RollingRest(token_list, first_seq_len, max_seq_len, pred_len)

\* (context, continuation) with the overlap taken out of the context
make_disjoint_window(pair) ==
    <<PySliceTo(pair[1], Len(pair[1]) - (Len(pair[2]) - 1)), pair[2]>>

----------------------------------------------------------------------------
(* loglikelihood_rolling *)

\* the window list of one document, as the requests of _loglikelihood_tokens
WindowRequests(string, context_len) ==
    LET ws == get_rolling_token_windows(tok_encode(string), eot_token_id,
                                        max_length, context_len)
    IN  [w \in 1..Len(ws) |->
            [key |-> <<>>,
             context_enc |-> make_disjoint_window(ws[w])[1],
             continuation_enc |-> make_disjoint_window(ws[w])[2]]]

\* the loop head with context_len=2 passed to get_rolling_token_windows
RollingWindows_context_len2 ==
    /\ pc = "start"
    /\ mode = "rolling"
    /\ doc <= Len(requests)
    /\ IF 1 <= 2 /\ 2 <= max_length
       THEN /\ new_reqs' = WindowRequests(requests[doc], 2)
            /\ pc' = "collate"
            /\ err' = err
       ELSE /\ new_reqs' = new_reqs
            /\ pc' = "aborted"
            /\ err' = "AssertionError"
    /\ UNCHANGED <<mode, max_length, batch_size, backend, requests, resps,
                   re_ord, done, chunk, inps, inplens, cont_toks_list,
                   padding_length, read_pos, res, ret, pad_hist, doc,
                   loglikelihoods, gen_log>>

\* the loop head: the disjoint windows of the next document
RollingWindows ==
    /\ pc = "start"
    /\ mode = "rolling"
    /\ doc <= Len(requests)
    /\ IF 1 <= 1 /\ 1 <= max_length
       THEN /\ new_reqs' = WindowRequests(requests[doc], 1)
            /\ pc' = "collate"
            /\ err' = err
       ELSE /\ new_reqs' = new_reqs
            /\ pc' = "aborted"
            /\ err' = "AssertionError"
    /\ UNCHANGED <<mode, max_length, batch_size, backend, requests, resps,
                   re_ord, done, chunk, inps, inplens, cont_toks_list,
                   padding_length, read_pos, res, ret, pad_hist, doc,
                   loglikelihoods, gen_log>>

\* discard is_greedy, sum, append
RollingSum ==
    /\ pc = "sum"
    /\ loglikelihoods' =
          Append(loglikelihoods, SumSeq([w \in 1..Len(ret) |-> ret[w].lp]))
    /\ doc' = doc + 1
    /\ pc' = "start"
    /\ UNCHANGED <<mode, max_length, batch_size, backend, requests, resps, err,
                   new_reqs, re_ord, done, chunk, inps, inplens,
                   cont_toks_list, padding_length, read_pos, res, ret,
                   pad_hist, gen_log>>

\* requests.resps = loglikelihoods
RollingFinish ==
    /\ pc = "start"
    /\ mode = "rolling"
    /\ doc > Len(requests)
    /\ resps' = loglikelihoods
    /\ pc' = "done"
    /\ UNCHANGED <<mode, max_length, batch_size, backend, requests, err,
                   new_reqs, re_ord, done, chunk, inps, inplens,
                   cont_toks_list, padding_length, read_pos, res, ret,
                   pad_hist, doc, loglikelihoods, gen_log>>

Documents == {[i \in 1..n |-> CtxChar(i)] : n \in 0..MaxDocLen}

InitRolling ==
    /\ mode = "rolling"
    /\ max_length \in 1..MaxW
    /\ batch_size \in 1..MaxBatch
    /\ requests \in SeqsUpTo(Documents, MaxReqs)
    /\ resps = <<>>
    /\ InitCommon

NextRolling ==
    \/ RollingWindows
    \/ Reorder
    \/ BuildBatch
    \/ ExtractBatch
    \/ ReturnOriginal
    \/ RollingSum
    \/ RollingFinish

SpecRolling == InitRolling /\ [][NextRolling]_vars

----------------------------------------------------------------------------
(* greedy_until *)

\* code point order of the characters in use
CharOrder ==
    <<"$", "1", "2", "<", ">", "O", "P", "S", "T",
      "a", "b", "c", "d", "e", "f", "g", "h", "i">>

Ord(c) == CHOOSE k \in 1..Len(CharOrder) : CharOrder[k] = c

\* a Python str as the sequence of its code point ranks
Codes(string) == [k \in 1..Len(string) |-> Ord(string[k])]

\* _collate: the key (len(toks), x[0])
greedy_collate(x) == <<Len(tok_encode(x.context)), Codes(x.context)>>

\* the texts the fake backends continue a context with
STOP1 == <<"<", "S", "T", "O", "P", "1", ">">>
STOP2 == <<"<", "S", "T", "O", "P", "2", ">">>

GenTexts ==
    << <<"a", "b", "c">> \o STOP1 \o <<"d", "e", "f">> \o STOP2 \o <<"g", "h", "i">>,
       <<"c", "a", "b", "a">>,
       <<"b", "c", "a", "b">>,
       <<"a", "b", "c">> \o STOP1 \o <<"d">> >>

\* the same texts as the token sequences the backend emits
GenToks == [k \in 1..Len(GenTexts) |-> tok_encode(GenTexts[k])]

GenNew(b, context) == GenToks[((b + Hash(context)) % Len(GenToks)) + 1]

\* the position of the first eos in toks, 0 if there is none
FirstToken(toks, eos) ==
    IF \E k \in 1..Len(toks) : toks[k] = eos
    THEN CHOOSE k \in 1..Len(toks) :
            toks[k] = eos /\ \A j \in 1..(k - 1) : toks[j] # eos
    ELSE 0

\* hf_model.generate(do_sample=False): the context followed by new tokens,
\* ended by the first eos_token_id or by max_length tokens in all
_model_generate(b, context, maxlen, eos_token_id) ==
    LET new == GenNew(b, context)
        cut == FirstToken(new, eos_token_id)
        upto_eos == IF cut = 0 THEN new ELSE SubSeq(new, 1, cut)
    IN  context \o SubSeq(upto_eos, 1, Min(Len(upto_eos), Max(maxlen - Len(context), 0)))

\* position of the first occurrence of term in s, 0 if there is none
FirstOcc(s, term) ==
    LET hits == {k \in 1..(Len(s) - Len(term) + 1) :
                    SubSeq(s, k, k + Len(term) - 1) = term}
    IN  IF hits = {} THEN 0
        ELSE CHOOSE k \in hits : \A j \in hits : k <= j

Occurs(term, s) == FirstOcc(s, term) # 0

\* s.split(term)[0]
SplitFirst(s, term) ==
    IF FirstOcc(s, term) = 0 THEN s ELSE SubSeq(s, 1, FirstOcc(s, term) - 1)

\* only the first stop string applied
StopTruncate_first_only(s, until) ==
    IF until = <<>> THEN s ELSE SplitFirst(s, until[1])

\* for term in until: s = s.split(term)[0]
RECURSIVE StopTruncate(_, _)
StopTruncate(s, until) ==
    IF until = <<>> THEN s
    ELSE StopTruncate(SplitFirst(s, until[1]), Tail(until))

\* if isinstance(until, str): until = [until]
UntilList(until) == IF until.kind = "str" THEN <<until.value>> ELSE until.value

\* the context handed to generate, left truncated
GenContext(context) == PySliceFrom(tok_encode(context), max_gen_toks - max_length)

\* one iteration of the loop body
GreedyOne(req) ==
    LET until == UntilList(req.until)
        context_enc == GenContext(req.context)
        primary == tok_encode(until[1])
        cont == _model_generate(backend, context_enc,
                                Len(context_enc) + max_gen_toks, primary[1])
        raw == tok_decode(PySliceFrom(cont, Len(context_enc)))
    IN  IF until = <<>> THEN [err |-> "IndexError"]
        ELSE IF Len(primary) # 1 THEN [err |-> "ValueError"]
        ELSE IF \E k \in 1..Len(until) : until[k] = <<>>
                    /\ \A j \in 1..(k - 1) : until[j] # <<>>
        THEN [err |-> "ValueError"]
        ELSE [err |-> "none",
              context |-> req.context,
              until |-> until,
              toks |-> tok_encode(req.context),
              context_enc |-> context_enc,
              raw |-> raw,
              s |-> StopTruncate(raw, until)]

GreedyReorder ==
    /\ pc = "start"
    /\ mode = "greedy_until"
    /\ re_ord' = Reorderer([i \in 1..Len(requests) |-> greedy_collate(requests[i])])
    /\ done' = 0
    /\ res' = <<>>
    /\ pc' = "generate"
    /\ UNCHANGED <<max_length, mode, batch_size, backend, requests, resps, err,
                   new_reqs, chunk, inps, inplens, cont_toks_list,
                   padding_length, read_pos, ret, pad_hist, doc,
                   loglikelihoods, gen_log>>

GreedyStep ==
    /\ pc = "generate"
    /\ done < Len(re_ord)
    /\ \E g \in {GreedyOne(requests[re_ord[done + 1]])} :
           IF g.err = "none"
           THEN /\ res' = Append(res, g.s)
                /\ gen_log' = Append(gen_log, g)
                /\ done' = done + 1
                /\ UNCHANGED <<pc, err>>
           ELSE /\ err' = g.err
                /\ pc' = "aborted"
                /\ UNCHANGED <<res, gen_log, done>>
    /\ UNCHANGED <<mode, max_length, batch_size, backend, requests, resps,
                   new_reqs, re_ord, chunk, inps, inplens, cont_toks_list,
                   padding_length, read_pos, ret, pad_hist, doc,
                   loglikelihoods>>

\* return res: the texts in processing order, not restored
GreedyReturn_unrestored ==
    /\ pc = "generate"
    /\ done = Len(re_ord)
    /\ ret' = res
    /\ pc' = "done"
    /\ UNCHANGED <<mode, max_length, batch_size, backend, requests, resps, err,
                   new_reqs, re_ord, done, chunk, inps, inplens,
                   cont_toks_list, padding_length, read_pos, res, pad_hist,
                   doc, loglikelihoods, gen_log>>

GreedyReturn ==
    /\ pc = "generate"
    /\ done = Len(re_ord)
    /\ ret' = get_original(re_ord, res)
    /\ pc' = "done"
    /\ UNCHANGED <<mode, max_length, batch_size, backend, requests, resps, err,
                   new_reqs, re_ord, done, chunk, inps, inplens,
                   cont_toks_list, padding_length, read_pos, res, pad_hist,
                   doc, loglikelihoods, gen_log>>

GenContexts == Contexts \cup {<<"b">>}

Untils ==
    {[kind |-> "list", value |-> <<STOP2, STOP1>>],
     [kind |-> "list", value |-> <<<<"b">>, <<"a", "b">>>>],
     [kind |-> "str", value |-> <<"a">>],
     [kind |-> "list", value |-> <<<<"a", "b">>>>]}

GenerationRequests == [context : GenContexts, until : Untils]

InitGreedy ==
    /\ mode = "greedy_until"
    /\ max_length \in max_gen_toks..(max_gen_toks + MaxW)
    /\ batch_size = 1
    /\ requests \in SeqsUpTo(GenerationRequests, MaxReqs)
    /\ resps = <<>>
    /\ InitCommon

NextGreedy ==
    \/ GreedyReorder
    \/ GreedyStep
    \/ GreedyReturn

SpecGreedy == InitGreedy /\ [][NextGreedy]_vars

----------------------------------------------------------------------------
(* Properties of loglikelihood / _loglikelihood_tokens, under SpecLL *)

\* the tokens of row x after left truncation, before the final token is dropped
Truncated(x) ==
    LET toks == x.context_enc \o x.continuation_enc
        n == Min(Len(toks), max_length + 1)
    IN  SubSeq(toks, Len(toks) - n + 1, Len(toks))

\* the distribution that predicts continuation token k of x: the backend's
\* output after the tokens that precede that token in the truncated sequence
PredictingDist(x, k) ==
    LET t == Truncated(x)
    IN  Dist(backend, SubSeq(t, 1, Len(t) - Len(x.continuation_enc) + k - 1))

Mismatches(x) ==
    {k \in 1..Len(x.continuation_enc) :
        ArgMax(PredictingDist(x, k)) # x.continuation_enc[k]}

\* one request scored on its own, as a batch of one row
ScoreAlone(x) ==
    LET st == BuildRows(<<x>>, 1, EmptyBatch)
    IN  Answer(_model_call(backend, st.inps[1]),
               SlicePositions(Len(st.inps[1]), st.inplens[1],
                              Len(st.cont_toks_list[1])),
               st.cont_toks_list[1])

\* C1: when loglikelihood returns, the response slot of every request i holds
\* the (log_probability, is_greedy) pair of request i's own context and
\* continuation tokens, whatever order the batches were processed in.
Thm_C1_OrderPreserved ==
    (mode = "loglikelihood" /\ pc = "done") =>
        \A i \in 1..Len(requests) :
            resps[i] = <<ScoreAlone(EncodeRequest(requests[i]))>>

\* a finished call whose processing order differs from the request order and
\* whose two first responses differ
Wit_C1_Reordered ==
    /\ mode = "loglikelihood"
    /\ pc = "done"
    /\ Len(requests) >= 2
    /\ re_ord[1] # 1
    /\ resps[1] # resps[2]

\* C3: every row built is the last min(len, max_length + 1) tokens of
\* context + continuation without the final token; it is at most max_length
\* long, only context tokens are cut on the left, and the truncated sequence
\* still ends with the whole continuation.
Thm_C3_Truncation ==
    \A r \in 1..Len(inps) :
        LET x == chunk[r]
            toks == x.context_enc \o x.continuation_enc
            n == Min(Len(toks), max_length + 1)
        IN  /\ Len(x.context_enc) >= 1
            /\ Len(x.continuation_enc) >= 1
            /\ Len(x.continuation_enc) <= max_length
            /\ inplens[r] = n - 1
            /\ inplens[r] <= max_length
            /\ SubSeq(inps[r], 1, inplens[r]) = SubSeq(toks, Len(toks) - n + 1, Len(toks) - 1)
            /\ Len(toks) - n < Len(x.context_enc)
            /\ IsSuffix(x.continuation_enc,
                        SubSeq(inps[r], 1, inplens[r]) \o <<toks[Len(toks)]>>)

\* a built row whose context was cut on the left
Wit_C3_Truncated ==
    /\ pc = "extract"
    /\ \E r \in 1..Len(inps) :
          Len(chunk[r].context_enc) + Len(chunk[r].continuation_enc) > max_length + 1

\* C4: the logits slice of every row reads exactly contlen positions, all of
\* them inside [inplen - contlen, inplen), so never a padding position.
Thm_C4_SliceInsideRow ==
    /\ err # "RuntimeError_shape"
    /\ \A r \in 1..Len(read_pos) :
          LET contlen == Len(cont_toks_list[r])
          IN  /\ inplens[r] - contlen >= 0
              /\ Len(read_pos[r]) = contlen
              /\ \A j \in 1..Len(read_pos[r]) :
                    /\ read_pos[r][j] = inplens[r] - contlen + j - 1
                    /\ read_pos[r][j] < inplens[r]

\* an extracted batch with a row that carries padding
Wit_C4_PaddedRowRead ==
    \E r \in 1..Len(read_pos) :
        /\ Len(inps[r]) > inplens[r]
        /\ Len(read_pos[r]) >= 1

\* C5: every answer is the sum, over the continuation tokens, of the
\* log-probability the predicting position gives that token, and is_greedy
\* holds exactly when every predicting position's argmax is that token.
\* (res changes in ExtractBatch only, so it is read where that action ends)
Thm_C5_SumAndGreedy ==
    pc \in {"chunk", "aborted"} => \A p \in 1..Len(res) :
        LET x == new_reqs[re_ord[p]]
        IN  /\ res[p].lp =
                  SumSeq([k \in 1..Len(x.continuation_enc) |->
                             PredictingDist(x, k)[x.continuation_enc[k]]])
            /\ res[p].greedy <=> (Mismatches(x) = {})

\* a two-token continuation that misses the argmax at exactly one position
Wit_C5_OneMismatch ==
    \E p \in 1..Len(res) :
        /\ Len(new_reqs[re_ord[p]].continuation_enc) = 2
        /\ Cardinality(Mismatches(new_reqs[re_ord[p]])) = 1
        /\ ~res[p].greedy

BadContinuation(req) ==
    \/ Len(tok_encode(req.continuation)) = 0
    \/ Len(tok_encode(req.continuation)) > max_length

\* C9: a loglikelihood call with an empty or over-long continuation never
\* returns, and writes no response slot of any request.
\* (stated contrapositively: a call that returns, or any written slot, means
\* that no continuation of the call is empty or over-long)
Thm_C9_AbortWritesNothing ==
    (mode = "loglikelihood" /\
        (pc \in {"writeback", "done"} \/ \E i \in 1..Len(requests) : resps[i] # <<>>)) =>
        \A i \in 1..Len(requests) : ~BadContinuation(requests[i])

\* the call aborted after an earlier batch had been scored
Wit_C9_AbortAfterBatch ==
    /\ mode = "loglikelihood"
    /\ pc = "aborted"
    /\ err = "AssertionError"
    /\ Len(res) >= 1
    /\ \A i \in 1..Len(requests) : resps[i] = <<>>

RECURSIVE MaxSeq(_)
MaxSeq(s) == IF Len(s) = 1 THEN s[1] ELSE Max(s[1], MaxSeq(Tail(s)))

\* C10: in every batch built, padding_length is the first row's input length
\* and the maximum input length of the batch, every row is padding_length
\* wide, no padding amount is negative, and padding_length never grows from
\* one batch to the next.
Thm_C10_PaddingLength ==
    /\ err # "RuntimeError_pad"
    /\ pc = "extract" =>
          /\ padding_length = <<inplens[1]>>
          /\ inplens[1] = MaxSeq(inplens)
          /\ \A r \in 1..Len(inps) :
                /\ padding_length[1] - inplens[r] >= 0
                /\ Len(inps[r]) = padding_length[1]
    /\ \A k \in 1..(Len(pad_hist) - 1) : pad_hist[k + 1] <= pad_hist[k]

\* a batch of two rows, the second one padded
Wit_C10_PaddedBatch ==
    /\ pc = "extract"
    /\ Len(inps) >= 2
    /\ inplens[2] < padding_length[1]

----------------------------------------------------------------------------
(* Properties of loglikelihood_rolling, under SpecRolling *)

\* the log-probability of window x, summed token by token
WindowLogProb(x) ==
    SumSeq([k \in 1..Len(x.continuation_enc) |->
               PredictingDist(x, k)[x.continuation_enc[k]]])

\* the number of document tokens that precede the continuation of window w
CoveredBefore(w) ==
    SumSeq([v \in 1..(w - 1) |-> Len(new_reqs[v].continuation_enc)])

\* C6: the windows of a document of L tokens cover each token exactly once
\* as a continuation, there are ceil(L / max_length) of them, each has at
\* least one context token immediately to the left of its continuation (the
\* end-of-text token for the first), and the document's result is the sum
\* of the windows' log-probabilities.
Thm_C6_RollingCoverage ==
    (mode = "rolling" /\ pc # "aborted" /\ (pc \notin {"start", "done"} \/ doc > 1)) =>
        LET d == IF pc \in {"start", "done"} THEN doc - 1 ELSE doc
            toks == tok_encode(requests[d])
            L == Len(toks)
        IN  /\ Concat([w \in 1..Len(new_reqs) |-> new_reqs[w].continuation_enc]) = toks
            /\ Len(new_reqs) = (L + max_length - 1) \div max_length
            /\ \A w \in 1..Len(new_reqs) :
                  /\ Len(new_reqs[w].continuation_enc) >= 1
                  /\ Len(new_reqs[w].context_enc) >= 1
                  /\ IsSuffix(new_reqs[w].context_enc,
                              <<eot_token_id>> \o SubSeq(toks, 1, CoveredBefore(w)))
            /\ Len(new_reqs) >= 1 => new_reqs[1].context_enc = <<eot_token_id>>
            /\ pc \in {"start", "done"} =>
                  /\ Len(loglikelihoods) = d
                  /\ loglikelihoods[d] =
                        SumSeq([w \in 1..Len(new_reqs) |-> WindowLogProb(new_reqs[w])])

\* a summed document of several windows, the last one shorter than the rest
Wit_C6_SeveralWindows ==
    /\ mode = "rolling"
    /\ pc = "start"
    /\ doc > 1
    /\ Len(new_reqs) >= 2
    /\ Len(tok_encode(requests[doc - 1])) % max_length # 0
    /\ Len(loglikelihoods) = doc - 1

----------------------------------------------------------------------------
(* Properties of greedy_until, under SpecGreedy *)

\* C2: greedy_until returns one text per request, and the i-th text is the
\* one generated from request i's context and cut with request i's own stop
\* sequences.
Thm_C2_GreedyOrderPreserved ==
    (mode = "greedy_until" /\ pc = "done") =>
        /\ Len(ret) = Len(requests)
        /\ \A i \in 1..Len(requests) :
              ret[i] = StopTruncate(
                          tok_decode(PySliceFrom(
                              _model_generate(backend, GenContext(requests[i].context),
                                  Len(GenContext(requests[i].context)) + max_gen_toks,
                                  tok_encode(UntilList(requests[i].until)[1])[1]),
                              Len(GenContext(requests[i].context)))),
                          UntilList(requests[i].until))

\* two requests with the same context and different stop sequences, answered
\* with different texts
Wit_C2_SameContext ==
    /\ mode = "greedy_until"
    /\ pc = "done"
    /\ \E i, j \in 1..Len(requests) :
          /\ i < j
          /\ requests[i].context = requests[j].context
          /\ requests[i].until # requests[j].until
          /\ ret[i] # ret[j]

ExampleRaw ==
    <<"a", "b", "c">> \o STOP1 \o <<"d", "e", "f">> \o STOP2 \o <<"g", "h", "i">>

\* the cut at the earliest match of any stop string in the raw text
GlobalEarliestCut(raw, until) ==
    LET hits == {FirstOcc(raw, until[k]) : k \in 1..Len(until)} \ {0}
    IN  IF hits = {} THEN raw
        ELSE SubSeq(raw, 1, (CHOOSE h \in hits : \A g \in hits : h <= g) - 1)

\* C7: the stop strings are applied one after the other, each to what the
\* previous one left: the result is a prefix of the raw text, holds no stop
\* string, and for "abc<STOP1>def<STOP2>ghi" with ["<STOP2>", "<STOP1>"] it
\* is "abc".
Thm_C7_StopTruncation ==
    /\ StopTruncate(ExampleRaw, <<STOP2, STOP1>>) = <<"a", "b", "c">>
    /\ \A n \in 1..Len(gen_log) :
          LET e == gen_log[n]
          IN  /\ IsPrefix(e.s, e.raw)
              /\ \A k \in 1..Len(e.until) : ~Occurs(e.until[k], e.s)
              /\ e.s = res[n]

\* a generation whose sequential cut differs from the global earliest match
Wit_C7_NotGlobalEarliest ==
    \E n \in 1..Len(gen_log) :
        /\ Len(gen_log[n].until) = 2
        /\ gen_log[n].s # GlobalEarliestCut(gen_log[n].raw, gen_log[n].until)
        /\ gen_log[n].s # gen_log[n].raw

\* C8: the context handed to generate is a suffix of the tokenized context,
\* its length plus max_gen_toks does not exceed max_length, and a context
\* that already fits is handed over unchanged.
Claim_C8_ContextFits ==
    \A n \in 1..Len(gen_log) :
        LET e == gen_log[n]
        IN  /\ IsSuffix(e.context_enc, e.toks)
            /\ Len(e.context_enc) + max_gen_toks <= max_length
            /\ Len(e.toks) + max_gen_toks <= max_length => e.context_enc = e.toks

====
